---------------------------- MODULE Spec2Model ----------------------------
(***************************************************************************)
(* The tokenization pipeline of tokenizers/src/tokenizer/mod.rs: the       *)
(* Tokenizer with its added vocabulary (add_tokens, add_special_tokens,    *)
(* refresh_added_tokens, split_on_added_tokens), encode / decode,          *)
(* post_process and encode_batch.                                          *)
(*                                                                         *)
(* Strings are sequences of one-character strings; every character of the  *)
(* alphabet is one byte, so byte offsets and character offsets agree.      *)
(* Option<T> is a sequence of length at most one: None = <<>>,             *)
(* Some(x) = <<x>>.                                                        *)
(***************************************************************************)
EXTENDS Integers, Sequences, FiniteSets, TLC

(* ------------------------------ bounds --------------------------------- *)

\* longest input sentence handed to split / encode
MaxLen == 3
\* most tokens the added vocabulary is grown to
MaxAdded == 2

(* ------------------------------ strings -------------------------------- *)

None == <<>>
Some(x) == <<x>>

Alphabet == {"a", "b", " "}

\* regex_syntax::is_word_character on the alphabet: letters are, the space is not
is_word_character(c) == c \in {"a", "b"}

RECURSIVE StringsUpTo(_)
StringsUpTo(n) ==
    IF n = 0 THEN {<<>>}
    ELSE LET shorter == StringsUpTo(n - 1)
         IN shorter \cup {Append(s, c) : s \in {t \in shorter : Len(t) = n - 1}, c \in Alphabet}

Sentences == StringsUpTo(MaxLen)

Min(S) == CHOOSE x \in S : \A y \in S : x <= y
Max(S) == CHOOSE x \in S : \A y \in S : x >= y

RECURSIVE SetToSeqs(_)
\* every order in which a HashMap may iterate over the set S of its keys
SetToSeqs(S) ==
    IF S = {} THEN {<<>>}
    ELSE UNION {{<<x>> \o rest : rest \in SetToSeqs(S \ {x})} : x \in S}

(* ------------------------------ Model ---------------------------------- *)
(* A Model is its vocabulary, the sequence of its tokens: the token at     *)
(* index i has id i - 1.  It tokenizes by greedy longest match and emits   *)
(* nothing for a character it does not know.                               *)

ModelA == << <<"a">> >>
ModelB == << <<"a", "b">>, <<"b">> >>
Models == {ModelA, ModelB}

model_get_vocab_size(m) == Len(m)

model_token_to_id(m, token) ==
    IF \E i \in 1..Len(m) : m[i] = token
    THEN Some((CHOOSE i \in 1..Len(m) : m[i] = token) - 1)
    ELSE None

model_id_to_token(m, id) ==
    IF id + 1 \in 1..Len(m) THEN Some(m[id + 1]) ELSE None

\* the vocabulary entries that start at offset p (0-based) of word w
VocabAt(m, w, p) ==
    {i \in 1..Len(m) : /\ Len(m[i]) > 0
                       /\ p + Len(m[i]) <= Len(w)
                       /\ SubSeq(w, p + 1, p + Len(m[i])) = m[i]}

RECURSIVE TokenizeWord(_, _, _, _)
\* the Tokens of one pre-token (w, (off, _)) from offset p on
TokenizeWord(m, w, off, p) ==
    IF p >= Len(w) THEN <<>>
    ELSE LET cands == VocabAt(m, w, p)
         IN IF cands = {} THEN TokenizeWord(m, w, off, p + 1)
            ELSE LET i == CHOOSE i \in cands : \A j \in cands : Len(m[j]) <= Len(m[i])
                     n == Len(m[i])
                 IN <<[id |-> i - 1, value |-> m[i], offsets |-> <<off + p, off + p + n>>]>>
                    \o TokenizeWord(m, w, off, p + n)

RECURSIVE model_tokenize(_, _)
model_tokenize(m, pre_tokenized) ==
    IF pre_tokenized = <<>> THEN <<>>
    ELSE TokenizeWord(m, Head(pre_tokenized)[1], Head(pre_tokenized)[2][1], 0)
         \o model_tokenize(m, Tail(pre_tokenized))

(* ----------------------------- AddedToken ------------------------------ *)

EmptyMap == [x \in {} |-> 0]

AddedToken(content, single_word) == [content |-> content, single_word |-> single_word]

\* AddedToken::from
AddedTokenFrom(content) == AddedToken(content, FALSE)

(* ------------------------- vocabulary lookups --------------------------- *)

get_vocab_size(m, at, with_added_tokens) ==
    model_get_vocab_size(m) + (IF with_added_tokens THEN Cardinality(DOMAIN at) ELSE 0)

token_to_id(m, at, token) ==
    IF token \in DOMAIN at THEN Some(at[token].id) ELSE model_token_to_id(m, token)

id_to_token(m, atr, id) ==
    IF id \in DOMAIN atr THEN Some(atr[id].content) ELSE model_id_to_token(m, id)

(* ------------------------ refresh_added_tokens -------------------------- *)
(* The split pattern is the alternation, in order, of its alternatives: a  *)
(* literal with a word-boundary assertion in front of it and / or behind   *)
(* it.  The keys of a HashMap iterate in an arbitrary order, so any order  *)
(* of added_tokens' keys followed by any order of special_tokens' keys is  *)
(* a pattern the code may build.                                           *)

\* one alternative of the pattern, for a token of the chain
Alternative(token) ==
    IF token.single_word
    THEN [content |-> token.content,
          first_b |-> is_word_character(token.content[1]),
          last_b  |-> is_word_character(token.content[Len(token.content)])]
    ELSE [content |-> token.content, first_b |-> FALSE, last_b |-> FALSE]

\* the AddedToken the pattern is built from, for a key of special_tokens
SpecialAsAddedToken(t) == AddedToken(t, TRUE)

\* the values split_re may have after refresh_added_tokens
refresh_added_tokens(at, st) ==
    IF DOMAIN at = {} /\ DOMAIN st = {} THEN {None}
    ELSE {Some([i \in 1..(Len(ks) + Len(ss)) |->
                   IF i <= Len(ks)
                   THEN Alternative(AddedToken(ks[i], at[ks[i]].single_word))
                   ELSE Alternative(SpecialAsAddedToken(ss[i - Len(ks)]))])
            : ks \in SetToSeqs(DOMAIN at), ss \in SetToSeqs(DOMAIN st)}

(* ------------------------------ add_tokens ------------------------------ *)

\* a loop that skips the empty content only
SkipTokenEmptyOnly(m, at, token) == token.content = <<>>

\* the condition of the loop's `continue`: the token is ignored
SkipToken(m, at, token) ==
    token.content = <<>> \/ token_to_id(m, at, token.content) # None

\* an id that does not count the tokens added so far
NewIdModelSizeOnly(m, at) == model_get_vocab_size(m)

\* new_id
NewId(m, at) == model_get_vocab_size(m) + Cardinality(DOMAIN at)

\* one turn of the loop over tokens; st = [at, atr, ignored]
AddOneToken(m, st, token) ==
    IF SkipToken(m, st.at, token)
    THEN [st EXCEPT !.ignored = @ + 1]
    ELSE LET new_id  == NewId(m, st.at)
             present == token.content \in DOMAIN st.at
             \* entry(token).and_modify(|_| ignored += 1).or_insert(new_id)
             id      == IF present THEN st.at[token.content].id ELSE new_id
             at2     == IF present THEN st.at
                        ELSE st.at @@ (token.content :>
                                 [id |-> new_id, single_word |-> token.single_word])
             \* entry(*id).and_modify(|t| *t = token).or_insert_with(|| token)
             atr2    == IF id \in DOMAIN st.atr
                        THEN [st.atr EXCEPT ![id] = token]
                        ELSE st.atr @@ (id :> token)
         IN [at |-> at2, atr |-> atr2,
             ignored |-> st.ignored + (IF present THEN 1 ELSE 0)]

RECURSIVE AddTokensLoop(_, _, _)
AddTokensLoop(m, st, tokens) ==
    IF tokens = <<>> THEN st
    ELSE AddTokensLoop(m, AddOneToken(m, st, Head(tokens)), Tail(tokens))

\* the maps and the return value of add_tokens(tokens)
add_tokens(m, at, atr, tokens) ==
    LET st == AddTokensLoop(m, [at |-> at, atr |-> atr, ignored |-> 0], tokens)
    IN [at |-> st.at, atr |-> st.atr, ret |-> Len(tokens) - st.ignored]

(* -------------------------- add_special_tokens -------------------------- *)

\* a registration loop that registers nothing
RegisterNothing(m, at, st, tokens) == st

RECURSIVE RegisterSpecial(_, _, _, _)
\* for token in tokens: special_tokens.entry(token).or_insert(id)
RegisterSpecial(m, at, st, tokens) ==
    IF tokens = <<>> THEN st
    ELSE LET t  == Head(tokens)
             id == token_to_id(m, at, t)
             st2 == IF id # None /\ t \notin DOMAIN st THEN st @@ (t :> id[1]) ELSE st
         IN RegisterSpecial(m, at, st2, Tail(tokens))

add_special_tokens(m, at, atr, st, tokens) ==
    LET added == add_tokens(m, at, atr, [i \in 1..Len(tokens) |-> AddedTokenFrom(tokens[i])])
    IN [at |-> added.at, atr |-> added.atr,
        st |-> RegisterSpecial(m, added.at, st, tokens), ret |-> added.ret]

(* ------------------------ split_on_added_tokens ------------------------- *)

\* whether s has a word character at 1-based index i
WordAt(s, i) == i >= 1 /\ i <= Len(s) /\ is_word_character(s[i])

\* the assertion \b at byte offset p of s
WordBoundary(s, p) == WordAt(s, p) # WordAt(s, p + 1)

\* whether alternative alt matches s at byte offset p
MatchesAt(alt, s, p) ==
    LET n == Len(alt.content)
    IN /\ p + n <= Len(s)
       /\ SubSeq(s, p + 1, p + n) = alt.content
       /\ alt.first_b => WordBoundary(s, p)
       /\ alt.last_b => WordBoundary(s, p + n)

RECURSIVE FindIterFrom(_, _, _)
\* Regex::find_iter: the leftmost match, by the first alternative that matches
\* there, then on from its end
FindIterFrom(re, s, pos) ==
    LET starts == {p \in pos..(Len(s) - 1) : \E k \in 1..Len(re) : MatchesAt(re[k], s, p)}
    IN IF starts = {} THEN <<>>
       ELSE LET start == Min(starts)
                k     == Min({j \in 1..Len(re) : MatchesAt(re[j], s, start)})
                end   == start + Len(re[k].content)
            IN <<<<start, end>>>> \o FindIterFrom(re, s, end)

find_iter(re, s) == FindIterFrom(re, s, 0)

RECURSIVE FlatMapSplits(_, _)
\* the flat_map over the matches: the segment in front of each match, then the match
FlatMapSplits(matches, start_offset) ==
    IF matches = <<>> THEN <<>>
    ELSE LET start == Head(matches)[1]
             end   == Head(matches)[2]
         IN (IF start_offset < start THEN <<<<start_offset, start>>>> ELSE <<>>)
            \o <<<<start, end>>>>
            \o FlatMapSplits(Tail(matches), end)

\* the ranges without the rest behind the last match
SplitsNoTail(re, s) == FlatMapSplits(find_iter(re, s), 0)

\* the variable `splits`: the byte ranges the sentence is cut into
Splits(re, s) ==
    LET splits == FlatMapSplits(find_iter(re, s), 0)
    IN IF splits # <<>> /\ splits[Len(splits)][2] < Len(s)
       THEN Append(splits, <<splits[Len(splits)][2], Len(s)>>)
       ELSE splits

\* the closure mapped over splits: the piece and the id looked up for its text
PieceOf(re, st, at, sentence, rng) ==
    LET s == SubSeq(sentence, rng[1] + 1, rng[2])
    IN [s |-> s,
        id |-> IF s \in DOMAIN st THEN Some(st[s])
               ELSE IF s \in DOMAIN at THEN Some(at[s].id)
               ELSE None]

split_on_added_tokens(sre, st, at, sentence) ==
    IF sre # None
    THEN LET splits == Splits(sre[1], sentence)
         IN IF splits = <<>> THEN <<[s |-> sentence, id |-> None]>>
            ELSE [i \in 1..Len(splits) |-> PieceOf(sre[1], st, at, sentence, splits[i])]
    ELSE <<[s |-> sentence, id |-> None]>>

(* --------------------------- NormalizedString --------------------------- *)
(* [original, normalized, alignments]: alignments[i] is the byte range     *)
(* <<lo, hi>> of original that byte i of normalized comes from.            *)

\* NormalizedString::from
NormalizedFrom(s) ==
    [original |-> s, normalized |-> s, alignments |-> [i \in 1..Len(s) |-> <<i - 1, i>>]]

\* NormalizedString::merge_with
normalized_merge_with(n, other) ==
    [original   |-> n.original \o other.original,
     normalized |-> n.normalized \o other.normalized,
     alignments |-> n.alignments \o
                    [i \in 1..Len(other.alignments) |->
                        <<other.alignments[i][1] + Len(n.original),
                          other.alignments[i][2] + Len(n.original)>>]]

\* NormalizedString::convert_offsets(Range::Normalized(a..b))
convert_offsets(n, a, b) ==
    LET len == Len(n.normalized)
    IN IF a < 0 \/ b < 0 \/ a > len \/ b > len \/ a > b THEN None
       ELSE IF a = b
            THEN LET p == IF a < len THEN n.alignments[a + 1][1]
                          ELSE IF a > 0 THEN n.alignments[a][2] ELSE 0
                 IN Some(<<p, p>>)
            ELSE Some(<<Min({n.alignments[i][1] : i \in (a + 1)..b}),
                        Max({n.alignments[i][2] : i \in (a + 1)..b})>>)

(* ----------------------- Normalizer, PreTokenizer ----------------------- *)

RECURSIVE KeptIndices(_, _)
\* the 1-based indices of the characters of s, from i on, that are no space
KeptIndices(s, i) ==
    IF i > Len(s) THEN <<>>
    ELSE (IF s[i] = " " THEN <<>> ELSE <<i>>) \o KeptIndices(s, i + 1)

\* the Normalizer "RemoveSpaces": deletes every space, keeping the alignment
\* of what stays
normalizer_normalize(n) ==
    LET keep == KeptIndices(n.normalized, 1)
    IN [original   |-> n.original,
        normalized |-> [k \in 1..Len(keep) |-> n.normalized[keep[k]]],
        alignments |-> [k \in 1..Len(keep) |-> n.alignments[keep[k]]]]

Normalizers == {"RemoveSpaces"}

do_normalize(normalizer, sequence) ==
    LET normalized == NormalizedFrom(sequence)
    IN IF normalizer # None THEN normalizer_normalize(normalized) ELSE normalized

RECURSIVE WhitespaceWords(_, _)
\* the PreTokenizer "Whitespace": the maximal runs without a space, from
\* byte offset p on, each with its offsets
WhitespaceWords(s, p) ==
    IF p >= Len(s) THEN <<>>
    ELSE IF s[p + 1] = " " THEN WhitespaceWords(s, p + 1)
    ELSE LET stops == {q \in (p + 1)..Len(s) : q = Len(s) \/ s[q + 1] = " "}
             q     == Min(stops)
         IN <<<<SubSeq(s, p + 1, q), <<p, q>>>>>> \o WhitespaceWords(s, q)

PreTokenizers == {"Whitespace"}

\* the pre-tokens; neither pre-tokenizer changes the NormalizedString
pre_tokenize(pre_tokenizer, normalized) ==
    IF pre_tokenizer = None
    THEN <<<<normalized.normalized, <<0, Len(normalized.normalized)>>>>>>
    ELSE WhitespaceWords(normalized.normalized, 0)

(* ------------------------------- Encoding ------------------------------- *)
(* An Encoding is the sequence of its tokens, each with the entries the    *)
(* parallel arrays hold for it.  overflowing is left out: no operation     *)
(* modelled here reads it.                                                 *)

EncToken(id, type_id, token, offsets, special, attention) ==
    [id |-> id, type_id |-> type_id, token |-> token, offsets |-> offsets,
     special |-> special, attention |-> attention]

\* Encoding::merge_with
encoding_merge_with(enc, other, growing_offsets) ==
    LET starting_offset == IF growing_offsets /\ enc # <<>>
                           THEN enc[Len(enc)].offsets[2] ELSE 0
    IN enc \o [i \in 1..Len(other) |->
                 [other[i] EXCEPT !.offsets = <<@[1] + starting_offset,
                                               @[2] + starting_offset>>]]

\* Encoding::truncate(max_len, _)
encoding_truncate(enc, max_len) ==
    IF max_len >= Len(enc) THEN enc ELSE SubSeq(enc, 1, max_len)

\* Encoding::pad
encoding_pad(enc, target_length, params) ==
    IF Len(enc) >= target_length THEN enc
    ELSE LET pad == [i \in 1..(target_length - Len(enc)) |->
                        EncToken(params.pad_id, params.pad_type_id, params.pad_token,
                                 <<0, 0>>, 1, 0)]
         IN IF params.direction = "Left" THEN pad \o enc ELSE enc \o pad

(* -------------------------------- Result -------------------------------- *)

Ok(x) == [tag |-> "Ok", val |-> x]
Err(e) == [tag |-> "Err", val |-> e]
\* the thread panics: the call returns nothing
Panic(msg) == [tag |-> "Panic", val |-> msg]

(* ------------------------------ truncation ------------------------------ *)

RECURSIVE LongestFirst(_, _, _)
\* the lengths LongestFirst leaves of n_first + n_second tokens
LongestFirst(n_first, n_second, to_remove) ==
    IF to_remove = 0 THEN <<n_first, n_second>>
    ELSE IF n_first >= n_second
         THEN LongestFirst(n_first - 1, n_second, to_remove - 1)
         ELSE LongestFirst(n_first, n_second - 1, to_remove - 1)

\* truncate_encodings(encoding, pair_encoding, params): Ok(<<encoding, pair_encoding>>)
truncate_encodings(encoding, pair_encoding, params) ==
    LET pair         == IF pair_encoding = None THEN <<>> ELSE pair_encoding[1]
        total_length == Len(encoding) + Len(pair)
        to_remove    == total_length - params.max_length
        rewrap(e, q) == <<e, IF pair_encoding = None THEN None ELSE Some(q)>>
    IN IF total_length <= params.max_length THEN Ok(<<encoding, pair_encoding>>)
       ELSE CASE params.strategy = "LongestFirst" ->
                   LET n == LongestFirst(Len(encoding), Len(pair), to_remove)
                   IN Ok(rewrap(encoding_truncate(encoding, n[1]),
                                encoding_truncate(pair, n[2])))
              [] params.strategy = "OnlyFirst" ->
                   IF Len(pair) > params.max_length THEN Err("SequenceTooShort")
                   ELSE Ok(rewrap(encoding_truncate(encoding, Len(encoding) - to_remove), pair))
              [] params.strategy = "OnlySecond" ->
                   IF Len(encoding) > params.max_length THEN Err("SequenceTooShort")
                   ELSE Ok(rewrap(encoding, encoding_truncate(pair, Len(pair) - to_remove)))

(* ----------------------------- PostProcessor ---------------------------- *)
(* The PostProcessor "Sep" closes each sequence with the token "#".        *)

PostProcessors == {"Sep"}

SepToken(type_id) == EncToken(9, type_id, <<"#">>, <<0, 0>>, 1, 1)

\* PostProcessor::added_tokens
processor_added_tokens(is_pair) == IF is_pair THEN 2 ELSE 1

\* PostProcessor::default_process
default_process(encoding, pair_encoding) ==
    IF pair_encoding = None THEN Ok(encoding)
    ELSE Ok(encoding_merge_with(encoding, pair_encoding[1], FALSE))

\* PostProcessor::process
processor_process(encoding, pair_encoding, add_special) ==
    IF ~add_special THEN default_process(encoding, pair_encoding)
    ELSE IF pair_encoding = None THEN Ok(encoding \o <<SepToken(0)>>)
    ELSE Ok(encoding \o <<SepToken(0)>> \o pair_encoding[1] \o <<SepToken(1)>>)

(* ----------------------------- post_process ----------------------------- *)

\* the width of usize in the model
UsizeBits == 16

\* n_added_tokens
NAddedTokens(t, pair_encoding) ==
    IF t.post_processor # None THEN processor_added_tokens(pair_encoding # None) ELSE 0

\* usize subtraction: with overflow checks (a debug build) it panics, without
\* them (a release build) it wraps around
UsizeSub(a, b, overflow_checks) ==
    IF a >= b THEN Ok(a - b)
    ELSE IF overflow_checks THEN Panic("attempt to subtract with overflow")
    ELSE Ok(a - b + 2 ^ UsizeBits)

\* the TruncationParams handed to truncate_encodings, when trunc is set
TruncationBudget(t, pair_encoding, add_special, overflow_checks) ==
    LET params         == t.trunc[1]
        n_added_tokens == NAddedTokens(t, pair_encoding)
    IN IF add_special /\ n_added_tokens > 0
       THEN LET max_length == UsizeSub(params.max_length, n_added_tokens, overflow_checks)
            IN IF max_length.tag = "Ok"
               THEN Ok([params EXCEPT !.max_length = max_length.val])
               ELSE max_length
       ELSE Ok(params)

\* step 1: Ok(<<encoding, pair_encoding>>) after truncation
PostProcessTruncate(t, encoding, pair_encoding, add_special, overflow_checks) ==
    IF t.trunc # None
    THEN LET params == TruncationBudget(t, pair_encoding, add_special, overflow_checks)
         IN IF params.tag = "Ok"
            THEN truncate_encodings(encoding, pair_encoding, params.val)
            ELSE params
    ELSE Ok(<<encoding, pair_encoding>>)

\* step 2: the final encoding before padding
PostProcessProcess(t, truncated, add_special) ==
    IF t.post_processor # None
    THEN processor_process(truncated[1], truncated[2], add_special)
    ELSE default_process(truncated[1], truncated[2])

\* step 3
PostProcessPad(t, final_encoding) ==
    IF t.padding # None
    THEN LET params == t.padding[1]
             size   == IF params.strategy[1] = "Fixed" THEN params.strategy[2]
                       ELSE Len(final_encoding)
         IN encoding_pad(final_encoding, size, params)
    ELSE final_encoding

post_process(t, encoding, pair_encoding, add_special, overflow_checks) ==
    LET truncated == PostProcessTruncate(t, encoding, pair_encoding, add_special,
                                         overflow_checks)
    IN IF truncated.tag # "Ok" THEN truncated
       ELSE LET final_encoding == PostProcessProcess(t, truncated.val, add_special)
            IN IF final_encoding.tag # "Ok" THEN final_encoding
               ELSE Ok(PostProcessPad(t, final_encoding.val))

(* -------------------------------- encode -------------------------------- *)
(* t is the Tokenizer: the record of its fields.                           *)

\* the closure mapped over the pieces: the Encoding and NormalizedString of one
PieceOutput(t, piece, type_id) ==
    IF piece.id # None
    THEN [enc |-> <<EncToken(piece.id[1], type_id, piece.s, <<0, Len(piece.s)>>, 0, 1)>>,
          normalized |-> NormalizedFrom(piece.s)]
    ELSE LET normalized    == do_normalize(t.normalizer, piece.s)
             pre_tokenized == pre_tokenize(t.pre_tokenizer, normalized)
             output        == model_tokenize(t.model, pre_tokenized)
         IN [enc |-> [i \in 1..Len(output) |->
                         EncToken(output[i].id, type_id, output[i].value,
                                  output[i].offsets, 0, 1)],
             normalized |-> normalized]

\* first.merge_with(encoding, true)
MergePieceEncoding(first, encoding) == encoding_merge_with(first, encoding, TRUE)

RECURSIVE FoldPieces(_, _)
\* the two loops that merge the encodings and the normalized strings of the pieces
FoldPieces(first, others) ==
    IF others = <<>> THEN first
    ELSE FoldPieces([enc |-> MergePieceEncoding(first.enc, Head(others).enc),
                     normalized |-> normalized_merge_with(first.normalized,
                                                          Head(others).normalized)],
                    Tail(others))

generate_output(t, sentence, type_id) ==
    LET pieces  == split_on_added_tokens(t.split_re, t.special_tokens, t.added_tokens,
                                         sentence)
        results == [i \in 1..Len(pieces) |-> PieceOutput(t, pieces[i], type_id)]
    IN FoldPieces(Head(results), Tail(results))

\* (a, b) < (c, d) on tuples
TupleLess(x, y) == x[1] < y[1] \/ (x[1] = y[1] /\ x[2] < y[2])

\* current_offset when the walk of step 5 reaches token i
CurrentOffset(output, i) == IF i = 1 THEN <<0, 0>> ELSE output[i - 1].offsets

\* n_source is the pair's at token i: the walk has met an offset lower than
\* current_offset at or before i
SourceSwitched(output, i) ==
    \E j \in 1..i : TupleLess(output[j].offsets, CurrentOffset(output, j))

\* step 5: every offset converted against n_source, or kept where that fails
RemapOffsets(output, normalized, pair_normalized) ==
    [i \in 1..Len(output) |->
        LET n_source == IF SourceSwitched(output, i) THEN pair_normalized ELSE normalized
            range    == convert_offsets(n_source, output[i].offsets[1], output[i].offsets[2])
        IN [output[i] EXCEPT !.offsets = IF range = None THEN @ ELSE range[1]]]

\* (encoding, normalized) and (pair_encoding, pair_normalized); input is
\* <<sentence>> (Single) or <<sentence, pair>> (Dual)
EncodeOutputs(t, input) ==
    [first |-> generate_output(t, input[1], 0),
     pair  |-> IF Len(input) = 2 THEN Some(generate_output(t, input[2], 1)) ELSE None]

PairEncoding(outputs) ==
    IF outputs.pair = None THEN None ELSE Some(outputs.pair[1].enc)

\* pair_normalized.as_ref().unwrap_or(&normalized)
PairNormalized(outputs) ==
    IF outputs.pair = None THEN outputs.first.normalized ELSE outputs.pair[1].normalized

\* the `?` on post_process, then step 5
EncodeRemap(outputs, output) ==
    IF output.tag # "Ok" THEN output
    ELSE Ok(RemapOffsets(output.val, outputs.first.normalized, PairNormalized(outputs)))

\* Each intermediate result is bound through a one-element set, which
\* evaluates it once.
encode(t, input, add_special, overflow_checks) ==
    CHOOSE r \in UNION {{EncodeRemap(outputs, output) :
                           output \in {post_process(t, outputs.first.enc,
                                                    PairEncoding(outputs), add_special,
                                                    overflow_checks)}} :
                        outputs \in {EncodeOutputs(t, input)}} : TRUE

(* -------------------------------- decode -------------------------------- *)

RECURSIVE JoinWithSpace(_)
\* tokens.join(" ")
JoinWithSpace(tokens) ==
    IF tokens = <<>> THEN <<>>
    ELSE IF Len(tokens) = 1 THEN tokens[1]
    ELSE tokens[1] \o <<" ">> \o JoinWithSpace(Tail(tokens))

\* the filter on a token's surface
KeepToken(t, token, skip_special_tokens) ==
    ~skip_special_tokens \/ token \notin DOMAIN t.special_tokens

RECURSIVE DecodeTokens(_, _, _)
\* the surfaces of the ids that have one and pass the filter
DecodeTokens(t, ids, skip_special_tokens) ==
    IF ids = <<>> THEN <<>>
    ELSE LET id    == Head(ids)
             token == IF id \in DOMAIN t.added_tokens_r
                      THEN Some(t.added_tokens_r[id].content)
                      ELSE model_id_to_token(t.model, id)
         IN (IF token # None /\ KeepToken(t, token[1], skip_special_tokens)
             THEN <<token[1]>> ELSE <<>>)
            \o DecodeTokens(t, Tail(ids), skip_special_tokens)

\* no Decoder is set
decode(t, ids, skip_special_tokens) ==
    Ok(JoinWithSpace(DecodeTokens(t, ids, skip_special_tokens)))

(* ----------------------------- encode_batch ----------------------------- *)

\* a collect that appends the results as the workers complete
StoreInCompletionOrder(results, i, r) == results @@ ((Cardinality(DOMAIN results) + 1) :> r)

\* the indexed collect of the parallel iterator: input i's result goes to place i
StoreResult(results, i, r) == results @@ (i :> r)

\* pad_encodings
pad_encodings(encodings, params) ==
    LET pad_length == IF params.strategy[1] = "Fixed" THEN params.strategy[2]
                      ELSE Max({Len(encodings[i]) : i \in 1..Len(encodings)} \cup {0})
    IN Ok([i \in 1..Len(encodings) |-> encoding_pad(encodings[i], pad_length, params)])

\* what encode_batch may return once every input's result is there: the
\* collect into a Result gives one of the failures when there is one
encode_batch_results(t, results) ==
    LET n      == Cardinality(DOMAIN results)
        failed == {i \in 1..n : results[i].tag # "Ok"}
    IN IF failed # {} THEN {results[i] : i \in failed}
       ELSE LET encodings == [i \in 1..n |-> results[i].val]
            IN IF t.padding # None THEN {pad_encodings(encodings, t.padding[1])}
               ELSE {Ok(encodings)}

(* ------------------------------ state ---------------------------------- *)

VARIABLES
    model,            \* Tokenizer.model
    normalizer,       \* Tokenizer.normalizer
    pre_tokenizer,    \* Tokenizer.pre_tokenizer
    post_processor,   \* Tokenizer.post_processor
    added_tokens,     \* Tokenizer.added_tokens: content -> [id, single_word]
    added_tokens_r,   \* Tokenizer.added_tokens_r: id -> AddedToken
    special_tokens,   \* Tokenizer.special_tokens: content -> id
    split_re,         \* Tokenizer.split_re: None or Some(sequence of alternatives)
    trunc,            \* Tokenizer.trunc
    padding,          \* Tokenizer.padding
    replaced,         \* whether with_model or train has replaced the model since new
    batch,            \* the encode_batch in flight: None or Some([.., results])
    op,               \* the last operation called
    arg,              \* the text it was given (split, encode, decode), else None
    ret               \* what it returned

tok_vars == <<model, normalizer, pre_tokenizer, post_processor, added_tokens,
              added_tokens_r, special_tokens, split_re, trunc, padding>>
vars == <<model, normalizer, pre_tokenizer, post_processor, added_tokens,
          added_tokens_r, special_tokens, split_re, trunc, padding, replaced, batch,
          op, arg, ret>>

(* ------------------------------ operations ------------------------------ *)

\* &self
Self ==
    [model |-> model, normalizer |-> normalizer, pre_tokenizer |-> pre_tokenizer,
     post_processor |-> post_processor, added_tokens |-> added_tokens,
     added_tokens_r |-> added_tokens_r, special_tokens |-> special_tokens,
     split_re |-> split_re, trunc |-> trunc, padding |-> padding]

\* the contents add_tokens and add_special_tokens are called with
Contents == {<<>>, <<"a">>, <<" ">>, <<" ", "a">>}

AddedTokens == {AddedToken(c, w) : c \in Contents, w \in BOOLEAN}

\* the sequences over S of length 1 .. n
RECURSIVE SeqsUpTo(_, _)
SeqsUpTo(S, n) ==
    IF n = 0 THEN {}
    ELSE {<<x>> : x \in S} \cup {<<x>> \o q : x \in S, q \in SeqsUpTo(S, n - 1)}

\* Tokenizer::new
Init ==
    /\ model \in Models
    /\ normalizer = None
    /\ pre_tokenizer = None
    /\ post_processor = None
    /\ added_tokens = EmptyMap
    /\ added_tokens_r = EmptyMap
    /\ special_tokens = EmptyMap
    /\ split_re = None
    /\ trunc = None
    /\ padding = None
    /\ replaced = FALSE
    /\ batch = None
    /\ op = "new"
    /\ arg = None
    /\ ret = None

Idle == batch = None

WithNormalizer(n) ==
    /\ Idle
    /\ normalizer' = Some(n)
    /\ op' = "with_normalizer" /\ arg' = None /\ ret' = None
    /\ UNCHANGED <<model, pre_tokenizer, post_processor, added_tokens, added_tokens_r,
                   special_tokens, split_re, trunc, padding, replaced, batch>>

WithPreTokenizer(p) ==
    /\ Idle
    /\ pre_tokenizer' = Some(p)
    /\ op' = "with_pre_tokenizer" /\ arg' = None /\ ret' = None
    /\ UNCHANGED <<model, normalizer, post_processor, added_tokens, added_tokens_r,
                   special_tokens, split_re, trunc, padding, replaced, batch>>

WithPostProcessor(p) ==
    /\ Idle
    /\ post_processor' = Some(p)
    /\ op' = "with_post_processor" /\ arg' = None /\ ret' = None
    /\ UNCHANGED <<model, normalizer, pre_tokenizer, added_tokens, added_tokens_r,
                   special_tokens, split_re, trunc, padding, replaced, batch>>

WithModel(m) ==
    /\ Idle
    /\ model' = m
    /\ replaced' = TRUE
    /\ op' = "with_model" /\ arg' = None /\ ret' = None
    /\ UNCHANGED <<normalizer, pre_tokenizer, post_processor, added_tokens, added_tokens_r,
                   special_tokens, split_re, trunc, padding, batch>>

WithTruncation(params) ==
    /\ Idle
    /\ trunc' = params
    /\ op' = "with_truncation" /\ arg' = None /\ ret' = None
    /\ UNCHANGED <<model, normalizer, pre_tokenizer, post_processor, added_tokens,
                   added_tokens_r, special_tokens, split_re, padding, replaced, batch>>

WithPadding(params) ==
    /\ Idle
    /\ padding' = params
    /\ op' = "with_padding" /\ arg' = None /\ ret' = None
    /\ UNCHANGED <<model, normalizer, pre_tokenizer, post_processor, added_tokens,
                   added_tokens_r, special_tokens, split_re, trunc, replaced, batch>>

AddTokens(tokens) ==
    \E r \in {add_tokens(model, added_tokens, added_tokens_r, tokens)} :
       /\ Idle
       /\ Cardinality(DOMAIN r.at) <= MaxAdded
       /\ added_tokens' = r.at
       /\ added_tokens_r' = r.atr
       /\ split_re' \in refresh_added_tokens(r.at, special_tokens)
       /\ op' = "add_tokens" /\ arg' = None /\ ret' = r.ret
       /\ UNCHANGED <<model, normalizer, pre_tokenizer, post_processor, special_tokens,
                      trunc, padding, replaced, batch>>

AddSpecialTokens(tokens) ==
    \E r \in {add_special_tokens(model, added_tokens, added_tokens_r, special_tokens,
                                 tokens)} :
       /\ Idle
       /\ Cardinality(DOMAIN r.at) <= MaxAdded
       /\ added_tokens' = r.at
       /\ added_tokens_r' = r.atr
       /\ special_tokens' = r.st
       /\ split_re' \in refresh_added_tokens(r.at, r.st)
       /\ op' = "add_special_tokens" /\ arg' = None /\ ret' = r.ret
       /\ UNCHANGED <<model, normalizer, pre_tokenizer, post_processor, trunc, padding,
                      replaced, batch>>

\* train, when reading the files or trainer.train fails: `?` returns early
TrainErr(e) ==
    /\ Idle
    /\ op' = "train" /\ arg' = None /\ ret' = Err(e)
    /\ UNCHANGED <<tok_vars, replaced, batch>>

\* train, when trainer.train returns (new_model, specials)
TrainOk(new_model, specials) ==
    \E r \in {add_special_tokens(new_model, added_tokens, added_tokens_r, special_tokens,
                                 specials)} :
       /\ Idle
       /\ Cardinality(DOMAIN r.at) <= MaxAdded
       /\ model' = new_model
       /\ added_tokens' = r.at
       /\ added_tokens_r' = r.atr
       /\ special_tokens' = r.st
       /\ split_re' \in refresh_added_tokens(r.at, r.st)
       /\ replaced' = TRUE
       /\ op' = "train"
       /\ arg' = [model |-> new_model, special_tokens |-> specials]
       /\ ret' = Ok(<<>>)
       /\ UNCHANGED <<normalizer, pre_tokenizer, post_processor, trunc, padding, batch>>

Split(sentence) ==
    /\ Idle
    /\ op' = "split_on_added_tokens" /\ arg' = sentence
    /\ ret' = split_on_added_tokens(split_re, special_tokens, added_tokens, sentence)
    /\ UNCHANGED <<tok_vars, replaced, batch>>

Encode(input, add_special) ==
    /\ Idle
    /\ op' = "encode" /\ arg' = [input |-> input, add_special_tokens |-> add_special]
    /\ \E overflow_checks \in BOOLEAN :
          ret' = encode(Self, input, add_special, overflow_checks)
    /\ UNCHANGED <<tok_vars, replaced, batch>>

\* decode of the ids the last encode returned
Decode(skip_special_tokens) ==
    /\ Idle
    /\ op = "encode" /\ ret.tag = "Ok"
    /\ LET ids == [i \in 1..Len(ret.val) |-> ret.val[i].id]
       IN /\ arg' = [ids |-> ids, skip_special_tokens |-> skip_special_tokens,
                     input |-> arg.input]
          /\ ret' = decode(Self, ids, skip_special_tokens)
    /\ op' = "decode"
    /\ UNCHANGED <<tok_vars, replaced, batch>>

\* encode_batch is called: the parallel iterator is set up over the inputs
StartBatch(inputs, add_special, overflow_checks) ==
    /\ Idle
    /\ batch' = Some([results |-> EmptyMap])
    /\ op' = "encode_batch"
    /\ arg' = [inputs |-> inputs, add_special_tokens |-> add_special,
               overflow_checks |-> overflow_checks]
    /\ ret' = None
    /\ UNCHANGED <<tok_vars, replaced>>

\* a worker encodes input i; the workers run in any order
Worker(i) ==
    /\ batch # None
    /\ i \in 1..Len(arg.inputs)
    /\ i \notin DOMAIN batch[1].results
    /\ \E r \in {encode(Self, arg.inputs[i], arg.add_special_tokens,
                        arg.overflow_checks)} :
          batch' = Some([batch[1] EXCEPT !.results = StoreResult(@, i, r)])
    /\ UNCHANGED <<tok_vars, replaced, op, arg, ret>>

\* every worker is done: the results are collected, padded and returned
FinishBatch ==
    /\ batch # None
    /\ DOMAIN batch[1].results = 1..Len(arg.inputs)
    /\ ret' \in encode_batch_results(Self, batch[1].results)
    /\ batch' = None
    /\ UNCHANGED <<tok_vars, replaced, op, arg>>

(* ---------------------------- specifications --------------------------- *)

\* the longest list one call of add_tokens / add_special_tokens is given
MaxCall == 2

TokenLists == SeqsUpTo(AddedTokens, MaxCall)

ContentLists == SeqsUpTo(Contents, MaxCall)

\* what trainer.train may return
TrainerOutputs == {<<m, specials>> : m \in Models, specials \in {<<>>} \cup SeqsUpTo(Contents, 1)}

\* the added vocabulary under every operation that changes it or the model
Next ==
    \/ \E m \in Models : WithModel(m)
    \/ \E tokens \in TokenLists : AddTokens(tokens)
    \/ \E tokens \in ContentLists : AddSpecialTokens(tokens)
    \/ \E e \in {"Io", "TrainerFailure"} : TrainErr(e)
    \/ \E out \in TrainerOutputs : TrainOk(out[1], out[2])

Spec == Init /\ [][Next]_vars

\* the added-vocabulary matcher on every sentence; the vocabulary grows by one
\* token a call
NextSplit ==
    \/ \E token \in AddedTokens : AddTokens(<<token>>)
    \/ \E content \in Contents : AddSpecialTokens(<<content>>)
    \/ \E sentence \in Sentences : Split(sentence)

SpecSplit == Init /\ [][NextSplit]_vars

\* longest sentence handed to encode
MaxEncodeLen == 2

\* encode of a single sequence and decode of its ids, with no post-processor,
\* no truncation and no padding
NextEncode ==
    \/ \E n \in Normalizers : WithNormalizer(n)
    \/ \E token \in AddedTokens : AddTokens(<<token>>)
    \/ \E content \in Contents : AddSpecialTokens(<<content>>)
    \/ \E sentence \in StringsUpTo(MaxEncodeLen) : Encode(<<sentence>>, FALSE)
    \/ \E skip \in BOOLEAN : Decode(skip)

SpecEncode == Init /\ [][NextEncode]_vars

\* largest max_length given to with_truncation
MaxTruncLength == 3

\* the size of PaddingStrategy::Fixed
FixedSize == 3

TruncationParamsSet ==
    {[max_length |-> n, strategy |-> s, stride |-> 0] :
        n \in 0..MaxTruncLength, s \in {"LongestFirst", "OnlyFirst", "OnlySecond"}}

PaddingParamsSet ==
    {[strategy |-> s, direction |-> d, pad_id |-> 7, pad_type_id |-> 0,
      pad_token |-> <<"_">>] :
        s \in {<<"BatchLongest">>, <<"Fixed", FixedSize>>}, d \in {"Left", "Right"}}

\* the sentences post_process is exercised on
PostSentences == {<<>>, <<"a">>, <<"a", "a">>, <<"a", " ">>}

\* EncodeInput::Single and EncodeInput::Dual
EncodeInputs(S) == {<<s>> : s \in S} \cup {<<s, pair>> : s \in S, pair \in S}

\* encode of single and pair inputs under every truncation, post-processor and
\* padding setting
NextPost ==
    \/ \E p \in PreTokenizers : WithPreTokenizer(p)
    \/ \E p \in PostProcessors : WithPostProcessor(p)
    \/ \E params \in {None} \cup {Some(x) : x \in TruncationParamsSet} : WithTruncation(params)
    \/ \E params \in {None} \cup {Some(x) : x \in PaddingParamsSet} : WithPadding(params)
    \/ \E input \in EncodeInputs(PostSentences), add_special \in BOOLEAN :
          Encode(input, add_special)

SpecPost == Init /\ [][NextPost]_vars

\* most inputs of one encode_batch
MaxBatch == 3

\* the sentences of a batch
BatchSentences == {<<>>, <<"a">>, <<"a", "a">>}

\* encode_batch with its workers in every order
NextBatch ==
    \/ \E p \in PostProcessors : WithPostProcessor(p)
    \/ \E params \in {None} \cup
                     {Some(x) : x \in {y \in TruncationParamsSet :
                                          y.strategy = "OnlySecond" /\ y.max_length <= 1}} :
          WithTruncation(params)
    \/ \E params \in {None} \cup {Some(x) : x \in PaddingParamsSet} : WithPadding(params)
    \/ \E inputs \in SeqsUpTo({<<s>> : s \in BatchSentences}, MaxBatch),
          add_special \in BOOLEAN, overflow_checks \in BOOLEAN :
          StartBatch(inputs, add_special, overflow_checks)
    \/ \E i \in 1..MaxBatch : Worker(i)
    \/ FinishBatch

SpecBatch == Init /\ [][NextBatch]_vars

(* ------------------------------ properties ------------------------------ *)

\* C3: in every reachable state and for every list of tokens, add_tokens leaves
\* both maps (ids and stored single_word flags) as they are at each token whose
\* content is empty or already resolves through token_to_id, also when the
\* content came earlier in the same call or is stored with the other flag;
\* every other token adds its content once; the return value is the number of
\* tokens inserted; the same call a second time returns 0 and changes neither
\* the maps nor get_vocab_size(true); a call of empty contents returns 0.
AddTokensSkipsKnownTokens ==
    \A tokens \in TokenLists :
       LET st0       == [at |-> added_tokens, atr |-> added_tokens_r, ignored |-> 0]
           before(k) == AddTokensLoop(model, st0, SubSeq(tokens, 1, k - 1))
           known(k)  == \/ tokens[k].content = <<>>
                        \/ tokens[k].content \in DOMAIN before(k).at
                        \/ model_token_to_id(model, tokens[k].content) # None
           inserted  == {k \in 1..Len(tokens) : ~known(k)}
           r         == add_tokens(model, added_tokens, added_tokens_r, tokens)
           again     == add_tokens(model, r.at, r.atr, tokens)
       IN /\ \A k \in 1..Len(tokens) :
                known(k) => /\ before(k + 1).at = before(k).at
                            /\ before(k + 1).atr = before(k).atr
          /\ \A k \in inserted :
                /\ DOMAIN before(k + 1).at = DOMAIN before(k).at \cup {tokens[k].content}
                /\ before(k + 1).at[tokens[k].content].single_word = tokens[k].single_word
                /\ \A c \in DOMAIN before(k).at : before(k + 1).at[c] = before(k).at[c]
          /\ r.ret = Cardinality(inserted)
          /\ again.ret = 0 /\ again.at = r.at /\ again.atr = r.atr
          /\ get_vocab_size(model, again.at, TRUE) = get_vocab_size(model, r.at, TRUE)
          /\ (\A k \in 1..Len(tokens) : tokens[k].content = <<>>) => r.ret = 0

\* add_tokens has just returned 0 for tokens that were all known, and one of the
\* stored tokens would be skipped when given again with the other flag
ReAddedTokenIgnored ==
    /\ op = "add_tokens" /\ ret = 0
    /\ \E c \in DOMAIN added_tokens :
          add_tokens(model, added_tokens, added_tokens_r,
                     <<AddedToken(c, ~added_tokens[c].single_word)>>).ret = 0

\* C4: while the model has not been replaced, the ids of the added tokens are
\* exactly V .. V + |added_tokens| - 1 (so pairwise distinct), added_tokens_r is
\* the inverse map of added_tokens, get_vocab_size(true) = V + |added_tokens|,
\* and the next token inserted gets the id V + |added_tokens|.
AddedIdsAreConsecutive ==
    ~replaced =>
       LET V == model_get_vocab_size(model)
           n == Cardinality(DOMAIN added_tokens)
       IN /\ {added_tokens[c].id : c \in DOMAIN added_tokens} = V..(V + n - 1)
          /\ \A c, d \in DOMAIN added_tokens :
                added_tokens[c].id = added_tokens[d].id => c = d
          /\ DOMAIN added_tokens_r = V..(V + n - 1)
          /\ \A c \in DOMAIN added_tokens :
                added_tokens_r[added_tokens[c].id] = AddedToken(c, added_tokens[c].single_word)
          /\ get_vocab_size(model, added_tokens, TRUE) = V + n
          /\ \A token \in AddedTokens :
                LET r == add_tokens(model, added_tokens, added_tokens_r, <<token>>)
                IN r.ret = 1 => r.at[token.content].id = V + n

\* two tokens were inserted, by add_tokens and add_special_tokens, under the
\* model the tokenizer was built with
TwoTokensAddedSameModel ==
    /\ ~replaced
    /\ Cardinality(DOMAIN added_tokens) = 2
    /\ DOMAIN special_tokens # {}
    /\ \E c \in DOMAIN added_tokens : c \notin DOMAIN special_tokens

\* the pieces' texts, one after the other
RECURSIVE ConcatPieces(_)
ConcatPieces(pieces) ==
    IF pieces = <<>> THEN <<>> ELSE Head(pieces).s \o ConcatPieces(Tail(pieces))

\* the id a match of text s resolves to: special_tokens first, then added_tokens
MatchId(s) ==
    IF s \in DOMAIN special_tokens THEN Some(special_tokens[s])
    ELSE IF s \in DOMAIN added_tokens THEN Some(added_tokens[s].id)
    ELSE None

\* C5: split_on_added_tokens returns a non-empty list of pieces whose
\* concatenation is the input; the pieces are consecutive non-empty ranges of
\* the input that start at 0 and end at its length (no piece is empty unless
\* the input is), and with no split pattern the result is the single piece
\* (input, None).
SplitCoversInput ==
    op = "split_on_added_tokens" =>
       /\ ret # <<>>
       /\ ConcatPieces(ret) = arg
       /\ \A i \in 1..Len(ret) : ret[i].s = <<>> => arg = <<>>
       /\ split_re = None => ret = <<[s |-> arg, id |-> None]>>
       /\ split_re # None =>
             LET splits == Splits(split_re[1], arg)
             IN splits # <<>> =>
                   /\ Len(ret) = Len(splits)
                   /\ splits[1][1] = 0
                   /\ splits[Len(splits)][2] = Len(arg)
                   /\ \A i \in 1..Len(splits) :
                         /\ splits[i][1] < splits[i][2]
                         /\ ret[i].s = SubSeq(arg, splits[i][1] + 1, splits[i][2])
                   /\ \A i \in 1..(Len(splits) - 1) : splits[i][2] = splits[i + 1][1]

\* a sentence was cut into the segment in front of a match, the match, and the
\* rest behind it
SplitAroundMatch ==
    /\ op = "split_on_added_tokens"
    /\ split_re # None
    /\ Len(ret) = 3
    /\ find_iter(split_re[1], arg) = <<<<Len(ret[1].s), Len(ret[1].s) + Len(ret[2].s)>>>>

\* C6: a piece of the result carries an id if and only if it is a match of the
\* split pattern, and then the id found in special_tokens first, else in
\* added_tokens; every segment that is not a match has id None.
PieceHasIdIffMatched ==
    (op = "split_on_added_tokens" /\ split_re # None) =>
       LET splits  == Splits(split_re[1], arg)
           matches == find_iter(split_re[1], arg)
       IN \A i \in 1..Len(ret) :
             IF splits # <<>> /\ \E j \in 1..Len(matches) : matches[j] = splits[i]
             THEN ret[i].id # None /\ ret[i].id = MatchId(ret[i].s)
             ELSE ret[i].id = None

\* C7: a match of the split pattern whose text is a key of special_tokens
\* stands at a word boundary on each side where the token begins (resp. ends)
\* with a word character: a special token is never cut out of a longer word.
SpecialMatchedOnlyAtWordBoundary ==
    (op = "split_on_added_tokens" /\ split_re # None) =>
       LET matches == find_iter(split_re[1], arg)
       IN \A j \in 1..Len(matches) :
             LET t == SubSeq(arg, matches[j][1] + 1, matches[j][2])
             IN t \in DOMAIN special_tokens =>
                   /\ is_word_character(t[1]) => WordBoundary(arg, matches[j][1])
                   /\ is_word_character(t[Len(t)]) => WordBoundary(arg, matches[j][2])

\* the number of output tokens the pieces in front of piece i yield
RECURSIVE TokensBefore(_, _, _)
TokensBefore(t, pieces, i) ==
    IF i <= 1 THEN 0
    ELSE TokensBefore(t, pieces, i - 1) + Len(PieceOutput(t, pieces[i - 1], 0).enc)

\* C1: encode of a single sequence with no post-processor, truncation or
\* padding: every piece that split_on_added_tokens matched as an added token
\* yields exactly one output token, with the id of the match, whose final
\* offsets are the byte span [start, end) of the match in the input.
AddedTokenOffsetsAreItsSpan ==
    (op = "encode" /\ ret.tag = "Ok" /\ split_re # None) =>
       LET sentence == arg.input[1]
           pieces   == split_on_added_tokens(split_re, special_tokens, added_tokens,
                                             sentence)
           splits   == Splits(split_re[1], sentence)
           matches  == find_iter(split_re[1], sentence)
       IN \A i \in 1..Len(splits) :
             (\E j \in 1..Len(matches) : matches[j] = splits[i]) =>
                LET k == TokensBefore(Self, pieces, i) + 1
                IN /\ Len(PieceOutput(Self, pieces[i], 0).enc) = 1
                   /\ k <= Len(ret.val)
                   /\ ret.val[k].id = MatchId(pieces[i].s)[1]
                   /\ ret.val[k].offsets = splits[i]

\* whether needle occurs in hay
Contains(hay, needle) ==
    \E p \in 0..(Len(hay) - Len(needle)) : SubSeq(hay, p + 1, p + Len(needle)) = needle

\* C2: for a key t of special_tokens, with no post-processor and no decoder:
\* decode(encode(Single(t), false).ids, skip_special_tokens = true) returns a
\* string in which t does not occur.
DecodeDropsSpecialToken ==
    (/\ op = "decode"
     /\ arg.skip_special_tokens
     /\ arg.input[1] \in DOMAIN special_tokens
     /\ ret.tag = "Ok") => ~Contains(ret.val, arg.input[1])

\* encode_batch has returned, every input encodes successfully, and the result
\* has one Encoding per input: that of encode for the same input, with nothing
\* but padding added to it
BatchResultInInputOrder ==
    (/\ op = "encode_batch" /\ batch = None
     /\ \A i \in 1..Len(arg.inputs) :
           encode(Self, arg.inputs[i], arg.add_special_tokens,
                  arg.overflow_checks).tag = "Ok") =>
       /\ ret.tag = "Ok"
       /\ Len(ret.val) = Len(arg.inputs)
       /\ \A i \in 1..Len(arg.inputs) :
             LET e == encode(Self, arg.inputs[i], arg.add_special_tokens,
                             arg.overflow_checks).val
             IN IF padding = None THEN ret.val[i] = e
                ELSE /\ Len(ret.val[i]) >= Len(e)
                     /\ ret.val[i] = encoding_pad(e, Len(ret.val[i]), padding[1])

\* C8: encode_batch preserves the input order whatever the order in which the
\* workers complete: when every input encodes successfully, result[i] is
\* encode(inputs[i]) up to the padding of the batch; and no step taken while
\* the batch is in flight changes the tokenizer.
BatchKeepsInputOrder ==
    /\ []BatchResultInInputOrder
    /\ [][batch # None => UNCHANGED tok_vars]_vars

\* a batch of three inputs with encodings of different lengths has returned,
\* padded to the longest
BatchOfThreeReturned ==
    /\ op = "encode_batch" /\ batch = None
    /\ ret # None /\ ret.tag = "Ok"
    /\ Len(arg.inputs) = 3
    /\ padding # None /\ padding[1].strategy = <<"BatchLongest">>
    /\ Len(encode(Self, arg.inputs[1], arg.add_special_tokens, arg.overflow_checks).val)
          < Len(encode(Self, arg.inputs[3], arg.add_special_tokens,
                       arg.overflow_checks).val)
    /\ Len(ret.val[1]) = Len(ret.val[3])

\* the number of tokens the post-processor is to add in the last encode
AddedBySpecialTokens ==
    IF arg.add_special_tokens /\ post_processor # None
    THEN processor_added_tokens(Len(arg.input) = 2) ELSE 0

\* C9: with truncation configured, post_process hands truncate_encodings the
\* budget trunc.max_length - added_tokens(is_pair) when add_special_tokens is
\* true and a post-processor is set, trunc.max_length otherwise, strategy and
\* stride unchanged; so an encoding returned before any padding has at most
\* trunc.max_length tokens.
TruncationBudgetLeavesRoom ==
    (op = "encode" /\ trunc # None) =>
       /\ \A overflow_checks \in BOOLEAN :
             TruncationBudget(Self, IF Len(arg.input) = 2 THEN Some(<<>>) ELSE None,
                              arg.add_special_tokens, overflow_checks)
                = Ok([trunc[1] EXCEPT !.max_length = @ - AddedBySpecialTokens])
       /\ (ret.tag = "Ok" /\ padding = None) => Len(ret.val) <= trunc[1].max_length

\* C10: with truncation configured with max_length smaller than
\* added_tokens(is_pair), encode with add_special_tokens = true returns an
\* error and no Encoding.
MiscalibratedTruncationIsError ==
    (/\ op = "encode"
     /\ trunc # None
     /\ arg.add_special_tokens
     /\ post_processor # None
     /\ trunc[1].max_length < processor_added_tokens(Len(arg.input) = 2)) =>
       ret.tag = "Err"

\* the operations that change the model or the added vocabulary, train left out
NextNoTrain ==
    \/ \E m \in Models : WithModel(m)
    \/ \E n \in Normalizers : WithNormalizer(n)
    \/ \E tokens \in TokenLists : AddTokens(tokens)
    \/ \E tokens \in ContentLists : AddSpecialTokens(tokens)

SpecNoTrain == Init /\ [][NextNoTrain]_vars

\* C11: in every state reached without train, no two added tokens share an id,
\* added_tokens_r maps the id of every added token back to that token, and no
\* added token has an id below the model's vocabulary size.
AddedIdsConsistentWithoutTrain ==
    /\ \A c, d \in DOMAIN added_tokens :
          added_tokens[c].id = added_tokens[d].id => c = d
    /\ \A c \in DOMAIN added_tokens :
          /\ added_tokens[c].id \in DOMAIN added_tokens_r
          /\ added_tokens_r[added_tokens[c].id].content = c
    /\ \A c \in DOMAIN added_tokens :
          added_tokens[c].id >= model_get_vocab_size(model)

\* C12: every key of special_tokens is the content of a key of added_tokens,
\* also when the string given to add_special_tokens is in the model's vocabulary.
SpecialTokensAreAddedTokens ==
    DOMAIN special_tokens \subseteq DOMAIN added_tokens

\* encode of pair inputs through default_process: no post-processor, no
\* truncation, no padding, no added tokens
NextPair ==
    \/ \E n \in Normalizers : WithNormalizer(n)
    \/ \E p \in PreTokenizers : WithPreTokenizer(p)
    \/ \E sentence \in StringsUpTo(MaxEncodeLen), pair \in StringsUpTo(MaxEncodeLen) :
          Encode(<<sentence, pair>>, FALSE)

SpecPair == Init /\ [][NextPair]_vars

\* the offsets of token i of enc converted against n, kept where that fails
ConvertedAgainst(enc, i, n) ==
    LET range == convert_offsets(n, enc[i].offsets[1], enc[i].offsets[2])
    IN IF range = None THEN enc[i].offsets ELSE range[1]

\* C13: in encode of a pair processed by default_process, the remap converts
\* the offsets of every token of the first sequence against the first
\* sequence's NormalizedString and those of every token of the pair against
\* the pair's: the source switches exactly at the first token of the pair.
PairOffsetsUsePairSource ==
    (/\ op = "encode" /\ ret.tag = "Ok"
     /\ Len(arg.input) = 2
     /\ post_processor = None /\ trunc = None /\ padding = None) =>
       LET first  == generate_output(Self, arg.input[1], 0)
           second == generate_output(Self, arg.input[2], 1)
           n      == Len(first.enc)
       IN /\ Len(ret.val) = n + Len(second.enc)
          /\ \A i \in 1..Len(ret.val) :
                ret.val[i].offsets =
                   IF i <= n THEN ConvertedAgainst(first.enc, i, first.normalized)
                   ELSE ConvertedAgainst(second.enc, i - n, second.normalized)

\* C14: train is all-or-nothing.  A train that returns an error leaves the model,
\* added_tokens, added_tokens_r, special_tokens and the split pattern as they
\* were; a train that returns Ok leaves the model returned by trainer.train in
\* place, and every special token the trainer returned that token_to_id resolves
\* is a key of special_tokens.
TrainIsAllOrNothing ==
    [][op' = "train" =>
          /\ ret'.tag = "Err" =>
                UNCHANGED <<model, added_tokens, added_tokens_r, special_tokens, split_re>>
          /\ ret'.tag = "Ok" =>
                /\ model' = arg'.model
                /\ \A i \in 1..Len(arg'.special_tokens) :
                      token_to_id(model', added_tokens', arg'.special_tokens[i]) # None =>
                         arg'.special_tokens[i] \in DOMAIN special_tokens']_vars

\* a train that succeeded, with a special token of the trainer that resolves
TrainRegisteredSpecial ==
    /\ op = "train" /\ ret.tag = "Ok"
    /\ model = arg.model
    /\ \E i \in 1..Len(arg.special_tokens) :
          /\ token_to_id(model, added_tokens, arg.special_tokens[i]) # None
          /\ arg.special_tokens[i] \in DOMAIN special_tokens

\* C15: under add_tokens, add_special_tokens, with_model and train, the id stored
\* for every special token is the id token_to_id reports for it.
SpecialIdIsTokenToId ==
    \A t \in DOMAIN special_tokens :
       token_to_id(model, added_tokens, t) = Some(special_tokens[t])

=============================================================================
